---- MODULE Spec2Model ----
(***************************************************************************)
(* Model of the Swagger UI handler of oarkflow/swagger (swagger.go).       *)
(*                                                                         *)
(* New(cfg...) fills the defaults of a Config and returns a request        *)
(* handler.  The handler rejects non-GET requests, matches the request URI *)
(* against a fixed pattern, records the path prefix into the static-file   *)
(* provider through a sync.Once, sets the Content-Type from the leaf's     *)
(* extension and serves the index template, the registered document or a   *)
(* static file.                                                            *)
(*                                                                         *)
(* Strings are TLA+ strings; the pattern is matched character by character *)
(* with Len and SubSeq, following Go's leftmost-first semantics.           *)
(***************************************************************************)
EXTENDS Integers, Sequences, FiniteSets, TLC

VARIABLES
    cfg,          \* the variadic argument of New: <<>> or <<Config>>
    built,        \* New has returned the handler
    config,       \* the *Config the handler closes over
    Prefix,       \* config.Handler.Prefix
    once,         \* sync.Once: [done: 0/1, m: holder of the mutex or 0]
    pc,           \* position of each request goroutine in the handler
    req,          \* the request each goroutine handles
    loc,          \* handler locals: matches, path, prefix
    resp,         \* the response: status, Content-Type, body
    env,          \* what the collaborators returned to this request
    viaOnce,      \* history: how the request went through once.Do
    prefixWrites, \* history: number of executions of line 131
    writer,       \* history: the request that executed line 131 last
    overlapped    \* history: a request arrived while another was in flight

vars == <<cfg, built, config, Prefix, once, pc, req, loc, resp, env,
          viaOnce, prefixWrites, writer, overlapped>>

\* Number of request goroutines that may be inside the handler together.
MaxReq == 2

Req == 1..MaxReq

----------------------------------------------------------------------------
(* Configuration: Config, defaultConfig, New lines 72-96                   *)

SwagName == "swagger"

SwaggerFilesHandler == "swaggerFiles.Handler"

NilHandler == "nil"

\* The zero value of Config.
ZeroConfig ==
    [URL |-> "", DocExpansion |-> "", InstanceName |-> "", Title |-> "",
     DefaultModelsExpandDepth |-> 0, DeepLinking |-> FALSE,
     PersistAuthorization |-> FALSE, Oauth2DefaultClientID |-> "",
     Handler |-> NilHandler]

defaultConfig ==
    [URL |-> "doc.json", DocExpansion |-> "list", InstanceName |-> SwagName,
     Title |-> "Swagger UI", DefaultModelsExpandDepth |-> 1,
     DeepLinking |-> TRUE, PersistAuthorization |-> FALSE,
     Oauth2DefaultClientID |-> "", Handler |-> NilHandler]

\* Lines 79-96: the zero-valued fields New replaces.
FillDefaults(c) ==
    [c EXCEPT
       !.URL = IF @ = "" THEN "doc.json" ELSE @,
       !.DocExpansion = IF @ = "" THEN "list" ELSE @,
       !.InstanceName = IF @ = "" THEN SwagName ELSE @,
       !.Title = IF @ = "" THEN "Swagger UI" ELSE @,
       !.DefaultModelsExpandDepth = IF @ = 0 THEN 1 ELSE @,
       !.Handler = IF @ = NilHandler THEN SwaggerFilesHandler ELSE @]

\* Lines 73-96: the configuration the returned handler uses.
NewConfig(args) ==
    FillDefaults(IF Len(args) > 0 THEN args[1] ELSE defaultConfig)

\* Configurations a caller may pass: every field zero or set.
ConfigValues ==
    [URL : {"", "openapi.json"}, DocExpansion : {"", "full"},
     InstanceName : {"", "v2"}, Title : {"", "Demo"},
     DefaultModelsExpandDepth : {0, 2}, DeepLinking : BOOLEAN,
     PersistAuthorization : BOOLEAN, Oauth2DefaultClientID : {"", "client"},
     Handler : {NilHandler, "custom"}]

CustomConfig ==
    [URL |-> "openapi.json", DocExpansion |-> "full", InstanceName |-> "v2",
     Title |-> "Demo", DefaultModelsExpandDepth |-> 2, DeepLinking |-> FALSE,
     PersistAuthorization |-> TRUE, Oauth2DefaultClientID |-> "client",
     Handler |-> "custom"]

\* Arguments of New in the handler specifications.
HandlerCfgs == {<<>>, <<ZeroConfig>>, <<CustomConfig>>}

BoolStr(b) == IF b THEN "true" ELSE "false"

IntStr(n) == CASE n = 0 -> "0" [] n = 1 -> "1" [] n = 2 -> "2" [] OTHER -> "3"

\* Lines 51-53: a fixed script expression (the JS template literal, abridged).
Oauth2RedirectURL == "${protocol}//${host}${dirname}/oauth2-redirect.html"

toSwaggerConfig(c) ==
    [URL |-> c.URL, DeepLinking |-> c.DeepLinking,
     DocExpansion |-> c.DocExpansion,
     DefaultModelsExpandDepth |-> c.DefaultModelsExpandDepth,
     Oauth2RedirectURL |-> Oauth2RedirectURL, Title |-> c.Title,
     PersistAuthorization |-> c.PersistAuthorization,
     Oauth2DefaultClientID |-> c.Oauth2DefaultClientID]

\* swaggerIndexTpl executed on a swaggerConfig: the substituted places.
swaggerIndexTpl(s) ==
    "<title>" \o s.Title \o "</title>"
    \o " url: \"" \o s.URL \o "\","
    \o " oauth2RedirectUrl: " \o s.Oauth2RedirectURL \o ","
    \o " persistAuthorization: " \o BoolStr(s.PersistAuthorization) \o ","
    \o " docExpansion: \"" \o s.DocExpansion \o "\","
    \o " deepLinking: " \o BoolStr(s.DeepLinking) \o ","
    \o " defaultModelsExpandDepth: " \o IntStr(s.DefaultModelsExpandDepth)
    \o " const defaultClientId = \"" \o s.Oauth2DefaultClientID \o "\";"

----------------------------------------------------------------------------
(* Route matching: the pattern of line 103                                 *)

\* The alternatives of the pattern's second group, in the order written.
Assets ==
    << "index.html", "doc.json", "favicon-16x16.png", "favicon-32x32.png",
       "/oauth2-redirect.html", "swagger-ui.css", "swagger-ui.css.map",
       "swagger-ui.js", "swagger-ui.js.map", "swagger-ui-bundle.js",
       "swagger-ui-bundle.js.map", "swagger-ui-standalone-preset.js",
       "swagger-ui-standalone-preset.js.map" >>

\* s has a at position i (1-based).
HasAt(s, i, a) ==
    /\ i + Len(a) - 1 <= Len(s)
    /\ SubSeq(s, i, i + Len(a) - 1) = a

\* The alternatives that match s at position i.
AltsAt(s, i) == {k \in 1..Len(Assets) : HasAt(s, i, Assets[k])}

Min(S) == CHOOSE x \in S : \A y \in S : x <= y

Max(S) == CHOOSE x \in S : \A y \in S : x >= y

\* The end of the longest run of '?', '|' and '.' that starts at position j.
RECURSIVE TailEnd(_, _)
TailEnd(s, j) ==
    IF j <= Len(s) /\ SubSeq(s, j, j) \in {"?", "|", "."}
    THEN TailEnd(s, j + 1)
    ELSE j - 1

\* matcher.FindStringSubmatch(s): nil when nothing matches, else the whole
\* match and the two groups.  (.*) is greedy, so the asset is taken at the
\* last position where some alternative matches; among the alternatives that
\* match there the first one written wins; [?|.]* then takes what it can.
FindStringSubmatch(s) ==
    LET starts == {i \in 1..Len(s) : AltsAt(s, i) # {}} IN
    IF starts = {} THEN <<>>
    ELSE LET i == Max(starts)
             k == Min(AltsAt(s, i))
             e == TailEnd(s, i + Len(Assets[k]))
         IN  <<SubSeq(s, 1, e), SubSeq(s, 1, i - 1), Assets[k]>>

\* filepath.Ext: the suffix from the last dot of the last path element.
RECURSIVE ExtFrom(_, _)
ExtFrom(p, i) ==
    IF i < 1 \/ SubSeq(p, i, i) = "/" THEN ""
    ELSE IF SubSeq(p, i, i) = "." THEN SubSeq(p, i, Len(p))
    ELSE ExtFrom(p, i - 1)

Ext(p) == ExtFrom(p, Len(p))

\* No Content-Type header set by the handler.
NoHeader == ""

\* Variant: the switch falls back to a default type for unknown extensions
\* and serves JavaScript as text.
ContentTypeDefaulting(p) ==
    CASE Ext(p) = ".html" -> "text/html; charset=utf-8"
      [] Ext(p) = ".css"  -> "text/css; charset=utf-8"
      [] Ext(p) = ".js"   -> "text/javascript"
      [] Ext(p) = ".png"  -> "image/png"
      [] Ext(p) = ".json" -> "application/json; charset=utf-8"
      [] OTHER            -> "application/octet-stream"

\* Lines 134-145: the Content-Type chosen for a leaf.
ContentType(p) ==
    CASE Ext(p) = ".html" -> "text/html; charset=utf-8"
      [] Ext(p) = ".css"  -> "text/css; charset=utf-8"
      [] Ext(p) = ".js"   -> "application/javascript"
      [] Ext(p) = ".png"  -> "image/png"
      [] Ext(p) = ".json" -> "application/json; charset=utf-8"
      [] OTHER            -> NoHeader

----------------------------------------------------------------------------
(* Requests and collaborators                                              *)

Origin == "http://localhost:8888"

\* ctx.Request.URI().String(): scheme, host, path and query string.
URI(q) == Origin \o q.mount \o "/" \o q.any \o q.query

Request(m, mount, any, query) ==
    [method |-> m, mount |-> mount, any |-> any, query |-> query]

\* Wildcard segments: the root, every served name, and names not served.
Segments ==
    {"", "index.html", "doc.json", "favicon-16x16.png", "favicon-32x32.png",
     "oauth2-redirect.html", "swagger-ui.css", "swagger-ui.css.map",
     "swagger-ui.js", "swagger-ui.js.map", "swagger-ui-bundle.js",
     "swagger-ui-bundle.js.map", "swagger-ui-standalone-preset.js",
     "swagger-ui-standalone-preset.js.map",
     "foo", "swagger-ui.cs", "readme.map", "index.html.bak", "v1/doc.json"}

\* Requests of the sequential specification.
SeqRequests ==
    {Request(m, "/swagger", a, q) :
        m \in {"GET", "POST"}, a \in Segments, q \in {"", "?v=1"}}
    \cup {Request(m, "/docs", a, "?next=doc.json") :
        m \in {"GET", "POST"}, a \in {"", "foo", "swagger-ui.css"}}

\* Requests of the concurrent specification.
ConcRequests ==
    {Request("GET", "/swagger", "index.html", ""),
     Request("GET", "/docs", "doc.json", ""),
     Request("GET", "/swagger", "swagger-ui.css", ""),
     Request("GET", "/docs", "", ""),
     Request("GET", "/swagger", "foo", ""),
     Request("POST", "/docs", "index.html", "")}

\* swag.ReadDoc(name) when the registry holds a document for name.
Doc(name) == "{\"swagger\":\"2.0\",\"x-instance\":\"" \o name \o "\"}"

\* The bytes the static-file provider holds for a path.
FileBytes(path) == "<bytes of " \o path \o ">"

StatusMethodNotAllowed == 405

StatusNotFound == 404

StatusInternalServerError == 500

NoRequest == Request("", "", "", "")

NoLocals == [matches |-> <<>>, path |-> "", prefix |-> ""]

\* A fresh response: status 200, no header, empty body.
NewResponse == [status |-> 200, ctype |-> NoHeader, body |-> ""]

\* Collaborator calls of one request: "-" not called, "ok", "err".
NoCalls == [template |-> "-", readDoc |-> "-", open |-> "-", read |-> "-"]

----------------------------------------------------------------------------
(* The handler's local computation                                         *)

\* ctx.AbortWithStatus(code): the status is set, header and body are kept.
AbortWithStatus(rsp, code) == [rsp EXCEPT !.status = code]

\* ctx.String(code, text): status, a plain-text Content-Type and the text.
CtxString(rsp, code, text) ==
    [status |-> code, ctype |-> "text/plain; charset=utf-8",
     body |-> rsp.body \o text]

\* ctx.Write(p): the framework appends p to the buffered response body and
\* reports no error.
Write(rsp, p) == [resp |-> [rsp EXCEPT !.body = @ \o p], err |-> FALSE]

\* Lines 123-128: the whole URI when the pattern did not match, else what
\* precedes the asset name.
DerivedPrefix(uri, matches) ==
    IF Len(matches) # 3 THEN uri ELSE matches[2]

\* Variant: the pattern is consulted before the method.
RoutedMatchFirst(q) ==
    LET uri == URI(q)
        matches == FindStringSubmatch(uri)
    IN  IF Len(matches) # 3 /\ q.any # ""
        THEN [verdict |-> StatusNotFound,
              loc |-> [NoLocals EXCEPT !.matches = matches]]
        ELSE IF q.method # "GET"
        THEN [verdict |-> StatusMethodNotAllowed, loc |-> NoLocals]
        ELSE [verdict |-> 0,
              loc |-> [matches |-> matches,
                       path |-> IF q.any # "" THEN matches[3]
                                ELSE "index.html",
                       prefix |-> DerivedPrefix(uri, matches)]]

\* Variant: an unmatched wildcard path falls through to the index page.
RoutedNoNotFound(q) ==
    LET uri == URI(q)
        matches == FindStringSubmatch(uri)
    IN  IF q.method # "GET"
        THEN [verdict |-> StatusMethodNotAllowed, loc |-> NoLocals]
        ELSE [verdict |-> 0,
              loc |-> [matches |-> matches,
                       path |-> IF q.any # "" /\ Len(matches) = 3
                                THEN matches[3] ELSE "index.html",
                       prefix |-> DerivedPrefix(uri, matches)]]

\* Lines 106-128: the verdict on a request (0: it is served) and, for a
\* served request, the locals matches, path and prefix.
Routed(q) ==
    LET uri == URI(q)
        matches == FindStringSubmatch(uri)
    IN  IF q.method # "GET"
        THEN [verdict |-> StatusMethodNotAllowed, loc |-> NoLocals]
        ELSE IF Len(matches) # 3 /\ q.any # ""
        THEN [verdict |-> StatusNotFound,
              loc |-> [NoLocals EXCEPT !.matches = matches]]
        ELSE [verdict |-> 0,
              loc |-> [matches |-> matches,
                       path |-> IF q.any # "" THEN matches[3]
                                ELSE "index.html",
                       prefix |-> DerivedPrefix(uri, matches)]]

\* Lines 134-145: ctx.Header when the switch has a case for the extension.
SetContentType(rsp, path) ==
    IF ContentType(path) = NoHeader THEN rsp
    ELSE [rsp EXCEPT !.ctype = ContentType(path)]

\* Lines 148-149: the template is executed into the response.
IndexResponse(rsp, c) == Write(rsp, swaggerIndexTpl(toSwaggerConfig(c))).resp

\* Variant: the lookup error is not checked and the document is written.
DocResponseUnchecked(rsp, readOk, doc) ==
    LET w == Write(rsp, IF readOk THEN doc ELSE "null")
    IN  IF ~readOk THEN AbortWithStatus(w.resp, StatusInternalServerError)
        ELSE w.resp

\* Lines 150-159: doc.json.
DocResponse(rsp, readOk, doc) ==
    IF ~readOk THEN AbortWithStatus(rsp, StatusInternalServerError)
    ELSE LET w == Write(rsp, doc)
         IN  IF w.err THEN AbortWithStatus(w.resp, StatusInternalServerError)
             ELSE w.resp

\* Variant: what was read is written before the read error is checked.
StaticResponseEarlyWrite(rsp, openOk, readOk, bytes) ==
    IF ~openOk THEN AbortWithStatus(rsp, StatusInternalServerError)
    ELSE LET buf == IF readOk THEN bytes
                    ELSE SubSeq(bytes, 1, Len(bytes) \div 2)
             w == Write(rsp, buf)
         IN  IF ~readOk \/ w.err
             THEN AbortWithStatus(w.resp, StatusInternalServerError)
             ELSE w.resp

\* Lines 161-175: a static asset.  A failed read leaves part of the file in
\* buf, which is not written.
StaticResponse(rsp, openOk, readOk, bytes) ==
    IF ~openOk THEN AbortWithStatus(rsp, StatusInternalServerError)
    ELSE LET buf == IF readOk THEN bytes
                    ELSE SubSeq(bytes, 1, Len(bytes) \div 2)
         IN  IF ~readOk THEN AbortWithStatus(rsp, StatusInternalServerError)
             ELSE LET w == Write(rsp, buf)
                  IN  IF w.err
                      THEN AbortWithStatus(w.resp, StatusInternalServerError)
                      ELSE w.resp

----------------------------------------------------------------------------
(* Actions                                                                 *)

TypeOK ==
    /\ built \in BOOLEAN
    /\ once \in [done : {0, 1}, m : {0} \cup Req]
    /\ pc \in [Req -> {"idle", "handle", "once", "lock", "locked", "f",
                       "store", "unlock", "serve", "done"}]
    /\ prefixWrites \in Nat
    /\ writer \in {0} \cup Req
    /\ overlapped \in BOOLEAN

Idle ==
    /\ Prefix = ""
    /\ once = [done |-> 0, m |-> 0]
    /\ pc = [r \in Req |-> "idle"]
    /\ req = [r \in Req |-> NoRequest]
    /\ loc = [r \in Req |-> NoLocals]
    /\ resp = [r \in Req |-> NewResponse]
    /\ env = [r \in Req |-> NoCalls]
    /\ viaOnce = [r \in Req |-> "-"]
    /\ prefixWrites = 0
    /\ writer = 0
    /\ overlapped = FALSE

\* The handler has been constructed by New and no request has arrived.
Init ==
    /\ cfg \in HandlerCfgs
    /\ built = TRUE
    /\ config = NewConfig(cfg)
    /\ Idle

\* New is about to be called with some argument.
InitNew ==
    /\ cfg \in {<<>>} \cup {<<c>> : c \in ConfigValues}
    /\ built = FALSE
    /\ config = ZeroConfig
    /\ Idle

\* New (lines 72-105): the defaults are filled in, the handler is returned.
New ==
    /\ ~built
    /\ built' = TRUE
    /\ config' = NewConfig(cfg)
    /\ UNCHANGED <<cfg, Prefix, once, pc, req, loc, resp, env, viaOnce,
                   prefixWrites, writer, overlapped>>

InFlight(r) == pc[r] \notin {"idle", "done"}

\* The framework calls the handler with a request from S.  Goroutines are
\* interchangeable, so they are numbered in the order they start.
ArriveFrom(r, S) ==
    /\ built
    /\ pc[r] = "idle"
    /\ \A o \in 1..(r - 1) : pc[o] # "idle"
    /\ \E q \in S : req' = [req EXCEPT ![r] = q]
    /\ pc' = [pc EXCEPT ![r] = "handle"]
    /\ overlapped' = (overlapped \/ \E o \in Req \ {r} : InFlight(o))
    /\ UNCHANGED <<cfg, built, config, Prefix, once, loc, resp, env, viaOnce,
                   prefixWrites, writer>>

Arrive(r) == ArriveFrom(r, ConcRequests)

ArriveSeq(r) == ArriveFrom(r, SeqRequests)

\* Variant: once.Do stands before the 404 check, so an unmatched wildcard
\* request runs the guard and is rejected afterwards.
RouteGuardFirst(r) ==
    /\ pc[r] = "handle"
    /\ LET rt == Routed(req[r]) IN
       IF rt.verdict = StatusMethodNotAllowed
       THEN /\ resp' = [resp EXCEPT ![r] = AbortWithStatus(@, rt.verdict)]
            /\ pc' = [pc EXCEPT ![r] = "done"]
            /\ UNCHANGED <<loc, Prefix, once, viaOnce, prefixWrites, writer>>
       ELSE IF rt.verdict = StatusNotFound
       THEN /\ resp' = [resp EXCEPT ![r] =
                           CtxString(@, rt.verdict, "Not Found")]
            /\ loc' = [loc EXCEPT ![r] = rt.loc]
            /\ pc' = [pc EXCEPT ![r] = "done"]
            /\ viaOnce' = [viaOnce EXCEPT ![r] =
                              IF once.done = 1 THEN "fast" ELSE "slow"]
            /\ IF once.done = 0 /\ once.m = 0
               THEN /\ Prefix' = URI(req[r])
                    /\ once' = [once EXCEPT !.done = 1]
                    /\ prefixWrites' = prefixWrites + 1
                    /\ writer' = r
               ELSE UNCHANGED <<Prefix, once, prefixWrites, writer>>
       ELSE /\ loc' = [loc EXCEPT ![r] = rt.loc]
            /\ pc' = [pc EXCEPT ![r] = "once"]
            /\ UNCHANGED <<resp, Prefix, once, viaOnce, prefixWrites, writer>>
    /\ UNCHANGED <<cfg, built, config, req, env, overlapped>>

\* Lines 106-128: method check, pattern match, 404 check, path and prefix.
Route(r) ==
    /\ pc[r] = "handle"
    /\ LET rt == Routed(req[r]) IN
       IF rt.verdict = StatusMethodNotAllowed
       THEN /\ resp' = [resp EXCEPT ![r] = AbortWithStatus(@, rt.verdict)]
            /\ pc' = [pc EXCEPT ![r] = "done"]
            /\ UNCHANGED loc
       ELSE IF rt.verdict = StatusNotFound
       THEN /\ resp' = [resp EXCEPT ![r] =
                           CtxString(@, rt.verdict, "Not Found")]
            /\ loc' = [loc EXCEPT ![r] = rt.loc]
            /\ pc' = [pc EXCEPT ![r] = "done"]
       ELSE /\ loc' = [loc EXCEPT ![r] = rt.loc]
            /\ pc' = [pc EXCEPT ![r] = "once"]
            /\ UNCHANGED resp
    /\ UNCHANGED <<cfg, built, config, Prefix, once, req, env, viaOnce,
                   prefixWrites, writer, overlapped>>

\* Variant: the guard is gone and every served request assigns the prefix.
OnceDoUnguarded(r) ==
    /\ pc[r] = "once"
    /\ viaOnce' = [viaOnce EXCEPT ![r] = "slow"]
    /\ Prefix' = loc[r].prefix
    /\ prefixWrites' = prefixWrites + 1
    /\ writer' = r
    /\ pc' = [pc EXCEPT ![r] = "serve"]
    /\ UNCHANGED <<cfg, built, config, once, req, loc, resp, env, overlapped>>

\* Line 130, once.Do: the fast path returns when done is set, otherwise the
\* caller goes on to doSlow.
OnceDo(r) ==
    /\ pc[r] = "once"
    /\ viaOnce' = [viaOnce EXCEPT ![r] =
                      IF once.done = 1 THEN "fast" ELSE "slow"]
    /\ pc' = [pc EXCEPT ![r] = IF once.done = 1 THEN "serve" ELSE "lock"]
    /\ UNCHANGED <<cfg, built, config, Prefix, once, req, loc, resp, env,
                   prefixWrites, writer, overlapped>>

\* doSlow: o.m.Lock().
DoSlowLock(r) ==
    /\ pc[r] = "lock"
    /\ once.m = 0
    /\ once' = [once EXCEPT !.m = r]
    /\ pc' = [pc EXCEPT ![r] = "locked"]
    /\ UNCHANGED <<cfg, built, config, Prefix, req, loc, resp, env, viaOnce,
                   prefixWrites, writer, overlapped>>

\* Variant: done is not read again under the lock.
DoSlowCheckNoRecheck(r) ==
    /\ pc[r] = "locked"
    /\ pc' = [pc EXCEPT ![r] = "f"]
    /\ UNCHANGED <<cfg, built, config, Prefix, once, req, loc, resp, env,
                   viaOnce, prefixWrites, writer, overlapped>>

\* doSlow: done is read again under the lock.
DoSlowCheck(r) ==
    /\ pc[r] = "locked"
    /\ pc' = [pc EXCEPT ![r] = IF once.done = 0 THEN "f" ELSE "unlock"]
    /\ UNCHANGED <<cfg, built, config, Prefix, once, req, loc, resp, env,
                   viaOnce, prefixWrites, writer, overlapped>>

\* Line 131: config.Handler.Prefix = prefix.
RunF(r) ==
    /\ pc[r] = "f"
    /\ Prefix' = loc[r].prefix
    /\ prefixWrites' = prefixWrites + 1
    /\ writer' = r
    /\ pc' = [pc EXCEPT ![r] = "store"]
    /\ UNCHANGED <<cfg, built, config, once, req, loc, resp, env, viaOnce,
                   overlapped>>

\* doSlow: the deferred o.done.Store(1).
StoreDone(r) ==
    /\ pc[r] = "store"
    /\ once' = [once EXCEPT !.done = 1]
    /\ pc' = [pc EXCEPT ![r] = "unlock"]
    /\ UNCHANGED <<cfg, built, config, Prefix, req, loc, resp, env, viaOnce,
                   prefixWrites, writer, overlapped>>

\* doSlow: the deferred o.m.Unlock(); once.Do returns.
Unlock(r) ==
    /\ pc[r] = "unlock"
    /\ once' = [once EXCEPT !.m = 0]
    /\ pc' = [pc EXCEPT ![r] = "serve"]
    /\ UNCHANGED <<cfg, built, config, Prefix, req, loc, resp, env, viaOnce,
                   prefixWrites, writer, overlapped>>

\* Lines 134-176: the Content-Type header, then the dispatch on path.  The
\* document registry and the static-file provider answer as they choose.
Serve(r) ==
    /\ pc[r] = "serve"
    /\ LET path == loc[r].path
           rsp == SetContentType(resp[r], path)
       IN  CASE path = "index.html" ->
                  /\ resp' = [resp EXCEPT ![r] = IndexResponse(rsp, config)]
                  /\ env' = [env EXCEPT ![r].template = "ok"]
             [] path = "doc.json" ->
                  \E readOk \in BOOLEAN :
                     /\ resp' = [resp EXCEPT ![r] =
                           DocResponse(rsp, readOk, Doc(config.InstanceName))]
                     /\ env' = [env EXCEPT ![r].readDoc =
                                   IF readOk THEN "ok" ELSE "err"]
             [] OTHER ->
                  \E openOk \in BOOLEAN, readOk \in BOOLEAN :
                     /\ openOk \/ readOk
                     /\ resp' = [resp EXCEPT ![r] =
                           StaticResponse(rsp, openOk, readOk, FileBytes(path))]
                     /\ env' = [env EXCEPT
                           ![r].open = IF openOk THEN "ok" ELSE "err",
                           ![r].read = IF ~openOk THEN "-"
                                       ELSE IF readOk THEN "ok" ELSE "err"]
    /\ pc' = [pc EXCEPT ![r] = "done"]
    /\ UNCHANGED <<cfg, built, config, Prefix, once, req, loc, viaOnce,
                   prefixWrites, writer, overlapped>>

\* The response has been sent and the goroutine takes the next request.
Finish(r) ==
    /\ pc[r] = "done"
    /\ pc' = [pc EXCEPT ![r] = "idle"]
    /\ req' = [req EXCEPT ![r] = NoRequest]
    /\ loc' = [loc EXCEPT ![r] = NoLocals]
    /\ resp' = [resp EXCEPT ![r] = NewResponse]
    /\ env' = [env EXCEPT ![r] = NoCalls]
    /\ viaOnce' = [viaOnce EXCEPT ![r] = "-"]
    /\ UNCHANGED <<cfg, built, config, Prefix, once, prefixWrites, writer,
                   overlapped>>

\* Up to MaxReq requests handled concurrently by one handler.
Next ==
    \E r \in Req :
        \/ Arrive(r)
        \/ Route(r)
        \/ OnceDo(r)
        \/ DoSlowLock(r)
        \/ DoSlowCheck(r)
        \/ RunF(r)
        \/ StoreDone(r)
        \/ Unlock(r)
        \/ Serve(r)

Spec == Init /\ [][Next]_vars

\* Any number of requests handled one after another by one handler.
NextSeq ==
    \/ ArriveSeq(1)
    \/ Route(1)
    \/ OnceDo(1)
    \/ DoSlowLock(1)
    \/ DoSlowCheck(1)
    \/ RunF(1)
    \/ StoreDone(1)
    \/ Unlock(1)
    \/ Serve(1)
    \/ Finish(1)

SpecSeq == Init /\ [][NextSeq]_vars

\* The construction of the handler, for every argument of New.
SpecNew == InitNew /\ [][New]_vars

----------------------------------------------------------------------------
(* Properties                                                              *)

Done(r) == pc[r] = "done"

\* The request was answered 405 or 404.
Rejected(r) ==
    Done(r) /\ resp[r].status \in {StatusMethodNotAllowed, StatusNotFound}

\* The request's call of once.Do has returned.
PastGuard(r) == pc[r] = "serve" \/ (Done(r) /\ ~Rejected(r))

\* No served name occurs anywhere in s.
NamesNoAsset(s) ==
    \A i \in 1..Len(s) : \A k \in 1..Len(Assets) : ~HasAt(s, i, Assets[k])

\* C1: in every interleaving of the requests of one handler the assignment
\* of line 131 has run at most once, and exactly once as soon as some
\* request has returned from once.Do.
C1_PrefixWrittenExactlyOnce ==
    /\ prefixWrites <= 1
    /\ \A r \in Req : PastGuard(r) => prefixWrites = 1

\* Two requests both found done unset, both went through doSlow, and both
\* have returned from once.Do.
C1_Witness ==
    \E a \in Req : \E b \in Req \ {a} :
        /\ PastGuard(a) /\ PastGuard(b)
        /\ viaOnce[a] = "slow" /\ viaOnce[b] = "slow"
        /\ prefixWrites = 1

\* C2 as stated: when the requests come one after another, the Prefix is the
\* prefix that lines 123-128 derive from the first request the handler
\* received.
C2_FirstReceivedWins ==
    (prefixWrites > 0 /\ ~overlapped) =>
        Prefix = DerivedPrefix(URI(req[1]), FindStringSubmatch(URI(req[1])))

\* C2 amended: the Prefix is written once, by one request, and holds the
\* prefix that request derived; when the requests come one after another the
\* writing request is the first one that was not rejected with 405 or 404.
C2_FirstServedWins ==
    prefixWrites > 0 =>
        /\ prefixWrites = 1
        /\ Prefix = loc[writer].prefix
        /\ ~overlapped =>
              writer = Min({r \in Req : pc[r] # "idle" /\ ~Rejected(r)})

\* Two requests, one after the other, derived different prefixes; both have
\* passed the guard and the Prefix is the first one's.
C2_Witness ==
    \E a \in Req : \E b \in Req \ {a} :
        /\ ~overlapped
        /\ a < b
        /\ PastGuard(a) /\ PastGuard(b)
        /\ loc[a].prefix # loc[b].prefix
        /\ writer = a
        /\ Prefix = loc[a].prefix

\* C3: every answered request whose method is not GET has status 405,
\* whatever its path.
C3_NonGetIs405 ==
    \A r \in Req :
        (Done(r) /\ req[r].method # "GET") =>
            resp[r].status = StatusMethodNotAllowed

\* A POST for a wildcard path that names no asset was answered 405.
C3_Witness ==
    \E r \in Req :
        /\ Done(r)
        /\ req[r].method = "POST"
        /\ req[r].any = "foo"
        /\ NamesNoAsset(URI(req[r]))
        /\ resp[r].status = StatusMethodNotAllowed

C5_LeafIsRequestedAsset ==
    \A r \in Req :
        (Done(r) /\ req[r].method = "GET" /\ ~Rejected(r)) =>
            /\ req[r].any = "" => loc[r].path = "index.html"
            /\ \A k \in 1..Len(Assets) :
                  Assets[k] \in {req[r].any, "/" \o req[r].any} =>
                      loc[r].path = Assets[k]

\* C6: for doc.json, a failed lookup gives 500 and an empty body; a
\* successful lookup gives exactly the document registered under the
\* configured instance name.
C6_DocJson ==
    \A r \in Req :
        (Done(r) /\ req[r].method = "GET" /\ loc[r].path = "doc.json") =>
            /\ env[r].readDoc = "err" =>
                  /\ resp[r].status = StatusInternalServerError
                  /\ resp[r].body = ""
            /\ env[r].readDoc = "ok" =>
                  resp[r].body = Doc(config.InstanceName)

\* doc.json was requested, the registry returned an error, and the answer
\* is 500 without a body.
C6_Witness ==
    \E r \in Req :
        /\ Done(r)
        /\ loc[r].path = "doc.json"
        /\ env[r].readDoc = "err"
        /\ resp[r].status = StatusInternalServerError
        /\ resp[r].body = ""

\* C7: for a static asset, a failed open or read gives 500 and an empty
\* body; when both succeed the body is the provider's bytes for that leaf.
C7_StaticAsset ==
    \A r \in Req :
        (/\ Done(r)
         /\ ~Rejected(r)
         /\ loc[r].path \notin {"index.html", "doc.json"}) =>
            /\ (env[r].open = "err" \/ env[r].read = "err") =>
                  /\ resp[r].status = StatusInternalServerError
                  /\ resp[r].body = ""
            /\ (env[r].open = "ok" /\ env[r].read = "ok") =>
                  resp[r].body = FileBytes(loc[r].path)

\* swagger-ui.css was opened and read, and the body is the file.
C7_Witness ==
    \E r \in Req :
        /\ Done(r)
        /\ loc[r].path = "swagger-ui.css"
        /\ env[r].open = "ok" /\ env[r].read = "ok"
        /\ resp[r].body = FileBytes("swagger-ui.css")

\* The Content-Type the claim gives for an extension.
TypeOfExt(ext) ==
    CASE ext = ".html" -> "text/html; charset=utf-8"
      [] ext = ".css"  -> "text/css; charset=utf-8"
      [] ext = ".js"   -> "application/javascript"
      [] ext = ".png"  -> "image/png"
      [] ext = ".json" -> "application/json; charset=utf-8"
      [] OTHER         -> NoHeader

\* C8: the Content-Type of every answered request that passed route
\* matching is the one of its leaf's extension, also when the answer is 500;
\* and the switch sets no header for a name that ends in .map.
C8_ContentTypeByExtension ==
    /\ \A r \in Req :
          (Done(r) /\ ~Rejected(r)) =>
              resp[r].ctype = TypeOfExt(Ext(loc[r].path))
    /\ \A s \in Segments :
          Ext(s) = ".map" => ContentType(s) = NoHeader

\* A static JavaScript asset could not be opened: the answer is 500 and
\* carries the JavaScript Content-Type.
C8_Witness ==
    \E r \in Req :
        /\ Done(r)
        /\ Ext(loc[r].path) = ".js"
        /\ resp[r].status = StatusInternalServerError
        /\ resp[r].ctype = "application/javascript"

\* C9 as stated: New replaces every zero-valued field by its default and
\* keeps the others, so that New(&Config{}) configures the handler as New()
\* does.
C9_ZeroConfigIsDefault ==
    (built /\ Len(cfg) > 0) =>
        /\ \A f \in DOMAIN ZeroConfig :
              config[f] = IF cfg[1][f] = ZeroConfig[f]
                          THEN NewConfig(<<>>)[f] ELSE cfg[1][f]
        /\ cfg[1] = ZeroConfig => config = NewConfig(<<>>)

\* C10: a request answered 405 or 404 never called once.Do; while every
\* request so far was rejected the guard is unused and the Prefix unset;
\* and when the requests come one after another, a request that passed the
\* guard after only rejected ones is the one that wrote the Prefix.
C10_RejectedLeavesGuard ==
    /\ \A r \in Req : Rejected(r) => viaOnce[r] = "-"
    /\ (\A r \in Req : pc[r] # "idle" => Rejected(r)) =>
          /\ once = [done |-> 0, m |-> 0]
          /\ Prefix = ""
          /\ prefixWrites = 0
    /\ \A r \in Req :
          (/\ ~overlapped
           /\ PastGuard(r)
           /\ \A o \in 1..(r - 1) : Rejected(o)) =>
              /\ writer = r
              /\ Prefix = loc[r].prefix

\* The first request was rejected and the second one wrote the Prefix.
C10_Witness ==
    /\ Rejected(1)
    /\ PastGuard(2)
    /\ writer = 2
    /\ Prefix = loc[2].prefix
    /\ prefixWrites = 1

====
